---- MODULE Spec2Model ----
(***************************************************************************)
(* Squashfs inode.c: squashfs_iget (the inode load gate built on the VFS   *)
(* inode hash) and squashfs_read_inode (the on-disk inode decoder).        *)
(*                                                                         *)
(* Fixed-width C integers are kept as little-endian sequences of 16-bit    *)
(* limbs (2 limbs = 32 bit, 4 limbs = 64 bit), so that unsigned wrap,      *)
(* int -> unsigned conversion and 64-bit shifts are computed exactly.      *)
(***************************************************************************)
EXTENDS Integers, Naturals, Sequences, FiniteSets, TLC

VARIABLES
    \* ---- squashfs_read_inode (one decode of one on-disk record) ----
    d_in,       \* the decode's inputs: ino, inode_table_start, the on-disk record
    dpc,        \* position inside squashfs_read_inode
    block,      \* long long block   (metadata cursor: block position)
    offset,     \* unsigned int offset (metadata cursor: byte offset in block)
    err,        \* int err, the value squashfs_read_inode returns
    inode,      \* the struct inode / squashfs_inode_info fields written so far
    calls,      \* the collaborator calls made so far, in order
    errlog,     \* the ERROR() diagnostics emitted so far, in order
    \* ---- squashfs_iget (concurrent callers over the VFS inode hash) ----
    icache,     \* the inode hash of the super block: ino_number -> object, 0 if none
    objs,       \* every struct inode allocated so far, by object id
    gpc,        \* each caller's position inside squashfs_iget
    gloc        \* each caller's arguments, locals and return value

dvars == <<d_in, dpc, block, offset, err, inode, calls, errlog>>
gvars == <<icache, objs, gpc, gloc>>
vars == <<d_in, dpc, block, offset, err, inode, calls, errlog, icache, objs, gpc, gloc>>

----------------------------------------------------------------------------
(* Fixed-width words *)

Limb == 2^16

\* A non-negative int below 2^31 as an n-limb word.
RECURSIVE ToWord(_, _)
ToWord(v, n) == IF n = 0 THEN <<>> ELSE <<v % Limb>> \o ToWord(v \div Limb, n - 1)

\* C conversion of an int to unsigned int (two's complement, 32 bit).
ToU32(v) == ToWord(v, 2)
\* Zero/sign-preserving conversion of a small int to a 64-bit word.
ToU64(v) == ToWord(v, 4)

RECURSIVE SubLimbs(_, _, _)
SubLimbs(a, b, borrow) ==
    IF a = <<>> THEN <<>>
    ELSE LET d == Head(a) - Head(b) - borrow
         IN  <<d % Limb>> \o SubLimbs(Tail(a), Tail(b), IF d < 0 THEN 1 ELSE 0)
\* a - b modulo 2^(16 * Len(a))
SubW(a, b) == SubLimbs(a, b, 0)

RECURSIVE AddLimbs(_, _, _)
AddLimbs(a, b, carry) ==
    IF a = <<>> THEN <<>>
    ELSE LET s == Head(a) + Head(b) + carry
         IN  <<s % Limb>> \o AddLimbs(Tail(a), Tail(b), s \div Limb)
\* a + b modulo 2^(16 * Len(a))
AddW(a, b) == AddLimbs(a, b, 0)

SignBit(a) == a[Len(a)] >= Limb \div 2

\* x >> 9 on an unsigned word (zeros shifted in).
ShrLogical9(a) ==
    [i \in 1..Len(a) |->
        (a[i] \div 512) + (IF i < Len(a) THEN (a[i + 1] % 512) * 128 ELSE 0)]

\* x >> 9 on a signed word as gcc compiles it (sign bits shifted in).
ShrArith9(a) ==
    [i \in 1..Len(a) |->
        (a[i] \div 512)
        + (IF i < Len(a) THEN (a[i + 1] % 512) * 128
           ELSE IF SignBit(a) THEN 511 * 128 ELSE 0)]

\* Unsigned comparison a < b of two words of the same width.
RECURSIVE LtLimbs(_, _)
LtLimbs(a, b) ==
    IF a = <<>> THEN FALSE
    ELSE LET n == Len(a)
         IN  IF a[n] # b[n] THEN a[n] < b[n]
             ELSE LtLimbs(SubSeq(a, 1, n - 1), SubSeq(b, 1, n - 1))
LtU(a, b) == LtLimbs(a, b)

----------------------------------------------------------------------------
(* Format constants *)

SQUASHFS_DIR_TYPE == 1
SQUASHFS_FILE_TYPE == 2
SQUASHFS_SYMLINK_TYPE == 3
SQUASHFS_BLKDEV_TYPE == 4
SQUASHFS_CHRDEV_TYPE == 5
SQUASHFS_FIFO_TYPE == 6
SQUASHFS_SOCKET_TYPE == 7
SQUASHFS_LDIR_TYPE == 8
SQUASHFS_LREG_TYPE == 9

\* The case labels of the switch in squashfs_read_inode.
KnownTypes ==
    { SQUASHFS_FILE_TYPE, SQUASHFS_LREG_TYPE, SQUASHFS_DIR_TYPE, SQUASHFS_LDIR_TYPE,
      SQUASHFS_SYMLINK_TYPE, SQUASHFS_BLKDEV_TYPE, SQUASHFS_CHRDEV_TYPE,
      SQUASHFS_FIFO_TYPE, SQUASHFS_SOCKET_TYPE }

FileTypes == { SQUASHFS_FILE_TYPE, SQUASHFS_LREG_TYPE }

EINVAL == 22
ENOMEM == 12

\* 0xffffffff, the "no fragment" index.
SQUASHFS_INVALID_FRAG == <<Limb - 1, Limb - 1>>
\* -1LL, the "no block" address.
SQUASHFS_INVALID_BLK == <<Limb - 1, Limb - 1, Limb - 1, Limb - 1>>

\* Size in bytes of an uncompressed metadata block.
SQUASHFS_METADATA_SIZE == 8192

\* sizeof(struct squashfs_base_inode)
SizeOfBase == 16
\* sizeof(*sqsh_ino) of the record read in the case of inode type t.
SizeOf(t) ==
    CASE t = SQUASHFS_FILE_TYPE -> 32
      [] t = SQUASHFS_LREG_TYPE -> 56
      [] t = SQUASHFS_DIR_TYPE -> 32
      [] t = SQUASHFS_LDIR_TYPE -> 40
      [] t = SQUASHFS_SYMLINK_TYPE -> 24
      [] t \in {SQUASHFS_BLKDEV_TYPE, SQUASHFS_CHRDEV_TYPE} -> 24
      [] t \in {SQUASHFS_FIFO_TYPE, SQUASHFS_SOCKET_TYPE} -> 20

\* SQUASHFS_INODE_BLK(ino): the upper 32 bits of the 48-bit inode reference.
SQUASHFS_INODE_BLK(ino) == ino \div Limb
\* SQUASHFS_INODE_OFFSET(ino): the lower 16 bits.
SQUASHFS_INODE_OFFSET(ino) == ino % Limb

----------------------------------------------------------------------------
(* Collaborators of the decoder *)

\* On-disk position of the metadata block that follows the one stored at b:
\* a two-byte length header and the compressed bytes.
NextMetadataBlock(b, compressed) == b + 2 + compressed

\* squashfs_read_metadata(sb, buf, &block, &offset, length), successful:
\* the cursor after length bytes were consumed from <<b, o>>; it moves to the
\* next metadata block when the current one is used up.
CursorAfter(b, o, length, compressed) ==
    IF o + length >= SQUASHFS_METADATA_SIZE
    THEN <<NextMetadataBlock(b, compressed), o + length - SQUASHFS_METADATA_SIZE>>
    ELSE <<b, o + length>>

\* Results of squashfs_read_metadata: negative on failure.
ReadResults == {0, -5}
\* Results of squashfs_get_id: 0 or a negative error.
IdResults == {0, -EINVAL, -5}
\* Results of get_fragment_location(sb, frag, &frag_blk): ret is the int it
\* returns (the fragment size word, or a negative error), blk what it stored
\* through the pointer (<<>> when it failed before storing anything).
FragResults ==
    [ret : {100, 0, 2^24 + 100}, blk : {ToU64(4096), SQUASHFS_INVALID_BLK}]
    \cup [ret : {-5, -ENOMEM}, blk : {<<>>}]

\* What an uninitialised long long frag_blk may hold.
UninitialisedBlk == {ToU64(0), ToU64(4096), SQUASHFS_INVALID_BLK}

\* Entries of the call log: the arguments and the result of each call.
ReadCall(b, o, n, r) ==
    [fn |-> "squashfs_read_metadata", block |-> b, offset |-> o, length |-> n,
     ret |-> r]
IdCall(i, r) == [fn |-> "squashfs_get_id", index |-> i, ret |-> r]
FragCall(f, fr) ==
    [fn |-> "get_fragment_location", fragment |-> f, ret |-> fr.ret, blk |-> fr.blk]

\* Fields not written yet: NoWord for the fixed-width ones, NoInt for the rest.
NoWord == <<>>
NoInt == 0 - 1

NoInodeFields ==
    [ i_uid |-> NoInt, i_gid |-> NoInt, i_ino |-> NoInt, i_mtime |-> NoInt,
      i_mode |-> NoInt, i_size |-> NoWord, i_nlink |-> NoInt, i_blocks |-> NoWord,
      i_rdev |-> NoInt, kind |-> "none",
      fragment_block |-> NoWord, fragment_size |-> NoWord,
      fragment_offset |-> NoInt, start |-> NoWord, block_list_start |-> NoInt,
      offset |-> NoInt, dir_idx_start |-> NoInt, dir_idx_offset |-> NoInt,
      dir_idx_cnt |-> NoInt, parent |-> NoInt ]

\* new_decode_dev(rdev): the packed device number as (major, minor).
new_decode_dev(dev) ==
    [ major |-> (dev \div 256) % 4096,
      minor |-> (dev % 256) + (((dev \div 4096) \div 256) % 4096) * 256 ]

\* (int) of an unsigned int (two's complement, 32 bit).
ToInt32(w) ==
    IF SignBit(w) THEN (w[1] - Limb) + (w[2] - (Limb - 1)) * Limb
    ELSE w[1] + w[2] * Limb

\* le32_to_cpu / le16_to_cpu of the low bytes of a record field held as a word.
Lo32(w) == SubSeq(w, 1, 2)
Lo16(w) == SubSeq(w, 1, 1)
ZeroExtTo64(w) == w \o [i \in 1..(4 - Len(w)) |-> 0]

----------------------------------------------------------------------------
(* The inputs of one decode *)

\* Cursor positions of the record: well inside a block, the base header ending
\* exactly at the block's end, and the base header straddling two blocks.
InodeOffsets ==
    {0, SQUASHFS_METADATA_SIZE - SizeOfBase, SQUASHFS_METADATA_SIZE - SizeOfBase + 4}
InodeBlocks == {0, 3}

Fragments == {SQUASHFS_INVALID_FRAG, ToU32(0), ToU32(5)}

\* <<file_size, sparse>> of the file records.
FileSizes ==
    { <<ToU64(0), ToU64(0)>>, <<ToU64(1), ToU64(0)>>, <<ToU64(512), ToU64(0)>>,
      <<ToU64(513), ToU64(0)>>, <<ToU64(1048576), ToU64(0)>>,
      <<ToU64(1048576), ToU64(512000)>>, <<ToU64(1048576), ToU64(1048576)>>,
      <<ToU64(513), ToU64(1)>> }

TypeTags == KnownTypes \cup {0, 10, 99}

Record(t, f, sz) ==
    [ inode_type |-> t, mode |-> 420, uid |-> 0, guid |-> 1, mtime |-> 1200000000,
      inode_number |-> 7, start_block |-> ToU64(1234), fragment |-> f,
      offset |-> 17, file_size |-> sz[1], sparse |-> sz[2], nlink |-> 2,
      parent_inode |-> 3, i_count |-> 1, symlink_size |-> ToU64(5),
      rdev |-> 2049 ]

Records ==
    { Record(t, f, sz) : t \in FileTypes, f \in Fragments, sz \in FileSizes }
    \cup { Record(t, SQUASHFS_INVALID_FRAG, <<ToU64(30), ToU64(0)>>) :
             t \in TypeTags \ FileTypes }

DecodeInputs ==
    [ ino : { b * Limb + o : b \in InodeBlocks, o \in InodeOffsets },
      inode_table_start : {96},
      compressed : {1000},
      id_table : { <<1000, 1001>> },
      rec : Records ]

NoInput ==
    [ ino |-> 0, inode_table_start |-> 0, compressed |-> 0, id_table |-> <<>>,
      rec |-> Record(0, SQUASHFS_INVALID_FRAG, <<ToU64(0), ToU64(0)>>) ]

----------------------------------------------------------------------------
(* squashfs_read_inode *)

\* Label failed_read: ERROR("Unable to read inode 0x%llx\n", ino); return err.
FailedRead(e, log) ==
    /\ err' = e
    /\ errlog' = Append(log, [msg |-> "Unable to read inode", arg |-> d_in.ino])
    /\ dpc' = "done"

\* block = SQUASHFS_INODE_BLK(ino) + msblk->inode_table_start;
\* offset = SQUASHFS_INODE_OFFSET(ino);
StartCursor(in) ==
    <<SQUASHFS_INODE_BLK(in.ino) + in.inode_table_start, SQUASHFS_INODE_OFFSET(in.ino)>>

\* Entry of squashfs_read_inode(inode, ino): the cursor is put on the record.
Enter(in) ==
    /\ dpc = "idle"
    /\ d_in' = in
    /\ block' = StartCursor(in)[1]
    /\ offset' = StartCursor(in)[2]
    /\ dpc' = "read_base"
    /\ UNCHANGED <<err, inode, calls, errlog, gvars>>

\* Read inode base common to all inode types.
ReadBase ==
    /\ dpc = "read_base"
    /\ \E r \in ReadResults :
         /\ calls' = Append(calls, ReadCall(block, offset, SizeOfBase, r))
         /\ IF r < 0
            THEN /\ FailedRead(r, errlog)
                 /\ UNCHANGED <<block, offset>>
            ELSE /\ err' = r
                 /\ block' = CursorAfter(block, offset, SizeOfBase, d_in.compressed)[1]
                 /\ offset' = CursorAfter(block, offset, SizeOfBase, d_in.compressed)[2]
                 /\ dpc' = "new_inode"
                 /\ UNCHANGED errlog
    /\ UNCHANGED <<d_in, inode, gvars>>

\* The result of squashfs_new_inode left untested: the decode goes on.
NewInodeFailed_Continue(e, ids, ino1) ==
    /\ calls' = calls \o ids
    /\ inode' = ino1
    /\ err' = e
    /\ dpc' = "switch"
    /\ UNCHANGED errlog

\* squashfs_new_inode failed with e after the calls ids: what read_inode does next.
NewInodeFailed(e, ids, ino1) ==
    /\ calls' = calls \o ids
    /\ inode' = ino1
    /\ FailedRead(e, errlog)

\* squashfs_new_inode(sb, inode, sqsh_ino) and the test of its result.
NewInode ==
    /\ dpc = "new_inode"
    /\ LET base == d_in.rec
       IN  \E ru \in IdResults :
             IF ru # 0
             THEN NewInodeFailed(ru, <<IdCall(base.uid, ru)>>, inode)
             ELSE \E rg \in IdResults :
                    LET with_uid == [inode EXCEPT !.i_uid = d_in.id_table[base.uid + 1]]
                        uid_call == IdCall(base.uid, ru)
                        gid_call == IdCall(base.guid, rg)
                    IN  IF rg # 0
                        THEN NewInodeFailed(rg, <<uid_call, gid_call>>, with_uid)
                        ELSE /\ calls' = calls \o <<uid_call, gid_call>>
                             /\ inode' = [with_uid EXCEPT
                                            !.i_gid = d_in.id_table[base.guid + 1],
                                            !.i_ino = base.inode_number,
                                            !.i_mtime = base.mtime,
                                            !.i_mode = base.mode,
                                            !.i_size = ToU64(0)]
                             /\ err' = 0
                             /\ dpc' = "switch"
                             /\ UNCHANGED errlog
    /\ UNCHANGED <<d_in, block, offset, gvars>>

\* The two assignments before the switch left out: the cursor stays behind the
\* base header.
RewoundCursor_NotRewound == <<block, offset>>

\* The cursor as the statements before the switch leave it: back on the record.
RewoundCursor == StartCursor(d_in)

\* type = le16_to_cpu(sqsh_ino->inode_type)
Type == d_in.rec.inode_type

\* The cursor after the type-specific record, read from the rewound cursor.
RecordCursor ==
    CursorAfter(RewoundCursor[1], RewoundCursor[2], SizeOf(Type), d_in.compressed)

\* err = squashfs_read_metadata(sb, sqsh_ino, &block, &offset, sizeof(*sqsh_ino));
\* if (err < 0) goto failed_read;
\* with r the read's result; when it succeeds the rest of the case follows.
ReadRecord(r) ==
    IF r < 0
    THEN /\ calls' = Append(calls,
                        ReadCall(RewoundCursor[1], RewoundCursor[2], SizeOf(Type), r))
         /\ block' = RewoundCursor[1]
         /\ offset' = RewoundCursor[2]
         /\ inode' = inode
         /\ FailedRead(r, errlog)
    ELSE /\ block' = RecordCursor[1]
         /\ offset' = RecordCursor[2]

\* A zero test in the place of the sentinel test.
HasFragment_ZeroTest(frag) == frag # ToU32(0)

\* frag != SQUASHFS_INVALID_FRAG
HasFragment(frag) == frag # SQUASHFS_INVALID_FRAG

\* frag_size < 0, frag_size being an unsigned int
FragSizeNegative(frag_size) == LtU(frag_size, ToU32(0))

\* inode->i_blocks = ((inode->i_size - 1) >> 9) + 1, i_size a signed loff_t
BlocksOfFile(i_size) == AddW(ShrArith9(SubW(i_size, ToU64(1))), ToU64(1))

\* inode->i_blocks = ((inode->i_size - le64_to_cpu(sqsh_ino->sparse) - 1) >> 9) + 1:
\* the __u64 operand makes the whole expression unsigned
BlocksOfLreg(i_size, sparse) ==
    AddW(ShrLogical9(SubW(SubW(i_size, sparse), ToU64(1))), ToU64(1))

\* return 0
ReturnOk ==
    /\ err' = 0
    /\ dpc' = "done"
    /\ UNCHANGED errlog

\* The fragment lookup and the field assignments shared by the two file cases;
\* size and nlink are the case's i_size and i_nlink, blocks its i_blocks.
FileFields(b, o, size, nlink, blocks) ==
    LET rec == d_in.rec
        read == ReadCall(RewoundCursor[1], RewoundCursor[2], SizeOf(Type), 0)
        frag == rec.fragment
    IN  IF HasFragment(frag)
        THEN \E fr \in FragResults :
             \E held \in (IF fr.blk = <<>> THEN UninitialisedBlk ELSE {fr.blk}) :
               LET frag_offset == rec.offset
                   frag_size == ToU32(fr.ret)
                   frag_blk == held
               IN  /\ calls' = calls \o <<read, FragCall(frag, fr)>>
                   /\ IF FragSizeNegative(frag_size)
                      THEN /\ inode' = inode
                           /\ FailedRead(ToInt32(frag_size), errlog)
                      ELSE /\ inode' = [inode EXCEPT
                                  !.i_nlink = nlink, !.i_size = size,
                                  !.kind = "S_IFREG", !.i_blocks = blocks,
                                  !.fragment_block = frag_blk,
                                  !.fragment_size = frag_size,
                                  !.fragment_offset = frag_offset,
                                  !.start = rec.start_block,
                                  !.block_list_start = b, !.offset = o]
                           /\ ReturnOk
        ELSE /\ calls' = Append(calls, read)
             /\ inode' = [inode EXCEPT
                    !.i_nlink = nlink, !.i_size = size,
                    !.kind = "S_IFREG", !.i_blocks = blocks,
                    !.fragment_block = SQUASHFS_INVALID_BLK,
                    !.fragment_size = ToU32(0),
                    !.fragment_offset = 0,
                    !.start = rec.start_block,
                    !.block_list_start = b, !.offset = o]
             /\ ReturnOk

FillFile(b, o) ==
    LET size == ZeroExtTo64(Lo32(d_in.rec.file_size))
    IN  FileFields(b, o, size, 1, BlocksOfFile(size))

\* case SQUASHFS_FILE_TYPE
CaseFile ==
    /\ dpc = "switch"
    /\ Type = SQUASHFS_FILE_TYPE
    /\ \E r \in ReadResults :
         /\ ReadRecord(r)
         /\ r >= 0 => FillFile(RecordCursor[1], RecordCursor[2])
    /\ UNCHANGED <<d_in, gvars>>

FillLreg(b, o) ==
    LET size == d_in.rec.file_size
    IN  FileFields(b, o, size, d_in.rec.nlink, BlocksOfLreg(size, d_in.rec.sparse))

\* case SQUASHFS_LREG_TYPE
CaseLreg ==
    /\ dpc = "switch"
    /\ Type = SQUASHFS_LREG_TYPE
    /\ \E r \in ReadResults :
         /\ ReadRecord(r)
         /\ r >= 0 => FillLreg(RecordCursor[1], RecordCursor[2])
    /\ UNCHANGED <<d_in, gvars>>

FillDir(b, o) ==
    /\ calls' = Append(calls,
                   ReadCall(RewoundCursor[1], RewoundCursor[2], SizeOf(Type), 0))
    /\ inode' = [inode EXCEPT
           !.i_nlink = d_in.rec.nlink,
           !.i_size = ZeroExtTo64(Lo16(d_in.rec.file_size)),
           !.kind = "S_IFDIR",
           !.start = ZeroExtTo64(Lo32(d_in.rec.start_block)),
           !.offset = d_in.rec.offset,
           !.dir_idx_cnt = 0,
           !.parent = d_in.rec.parent_inode]
    /\ ReturnOk

\* case SQUASHFS_DIR_TYPE
CaseDir ==
    /\ dpc = "switch"
    /\ Type = SQUASHFS_DIR_TYPE
    /\ \E r \in ReadResults :
         /\ ReadRecord(r)
         /\ r >= 0 => FillDir(RecordCursor[1], RecordCursor[2])
    /\ UNCHANGED <<d_in, gvars>>

FillLdir(b, o) ==
    /\ calls' = Append(calls,
                   ReadCall(RewoundCursor[1], RewoundCursor[2], SizeOf(Type), 0))
    /\ inode' = [inode EXCEPT
           !.i_nlink = d_in.rec.nlink,
           !.i_size = ZeroExtTo64(Lo32(d_in.rec.file_size)),
           !.kind = "S_IFDIR",
           !.start = ZeroExtTo64(Lo32(d_in.rec.start_block)),
           !.offset = d_in.rec.offset,
           !.dir_idx_start = b,
           !.dir_idx_offset = o,
           !.dir_idx_cnt = d_in.rec.i_count,
           !.parent = d_in.rec.parent_inode]
    /\ ReturnOk

\* case SQUASHFS_LDIR_TYPE
CaseLdir ==
    /\ dpc = "switch"
    /\ Type = SQUASHFS_LDIR_TYPE
    /\ \E r \in ReadResults :
         /\ ReadRecord(r)
         /\ r >= 0 => FillLdir(RecordCursor[1], RecordCursor[2])
    /\ UNCHANGED <<d_in, gvars>>

FillSymlink(b, o) ==
    /\ calls' = Append(calls,
                   ReadCall(RewoundCursor[1], RewoundCursor[2], SizeOf(Type), 0))
    /\ inode' = [inode EXCEPT
           !.i_nlink = d_in.rec.nlink,
           !.i_size = ZeroExtTo64(Lo32(d_in.rec.symlink_size)),
           !.kind = "S_IFLNK",
           !.start = ToU64(b),
           !.offset = o]
    /\ ReturnOk

\* case SQUASHFS_SYMLINK_TYPE
CaseSymlink ==
    /\ dpc = "switch"
    /\ Type = SQUASHFS_SYMLINK_TYPE
    /\ \E r \in ReadResults :
         /\ ReadRecord(r)
         /\ r >= 0 => FillSymlink(RecordCursor[1], RecordCursor[2])
    /\ UNCHANGED <<d_in, gvars>>

FillDev(b, o) ==
    /\ calls' = Append(calls,
                   ReadCall(RewoundCursor[1], RewoundCursor[2], SizeOf(Type), 0))
    /\ inode' = [inode EXCEPT
           !.i_nlink = d_in.rec.nlink,
           !.kind = IF Type = SQUASHFS_CHRDEV_TYPE THEN "S_IFCHR" ELSE "S_IFBLK",
           !.i_rdev = new_decode_dev(d_in.rec.rdev).major * 2^20
                      + new_decode_dev(d_in.rec.rdev).minor]
    /\ ReturnOk

\* case SQUASHFS_BLKDEV_TYPE: case SQUASHFS_CHRDEV_TYPE
CaseDev ==
    /\ dpc = "switch"
    /\ Type \in {SQUASHFS_BLKDEV_TYPE, SQUASHFS_CHRDEV_TYPE}
    /\ \E r \in ReadResults :
         /\ ReadRecord(r)
         /\ r >= 0 => FillDev(RecordCursor[1], RecordCursor[2])
    /\ UNCHANGED <<d_in, gvars>>

FillIpc(b, o) ==
    /\ calls' = Append(calls,
                   ReadCall(RewoundCursor[1], RewoundCursor[2], SizeOf(Type), 0))
    /\ inode' = [inode EXCEPT
           !.i_nlink = d_in.rec.nlink,
           !.kind = IF Type = SQUASHFS_FIFO_TYPE THEN "S_IFIFO" ELSE "S_IFSOCK",
           !.i_rdev = 0]
    /\ ReturnOk

\* case SQUASHFS_FIFO_TYPE: case SQUASHFS_SOCKET_TYPE
CaseIpc ==
    /\ dpc = "switch"
    /\ Type \in {SQUASHFS_FIFO_TYPE, SQUASHFS_SOCKET_TYPE}
    /\ \E r \in ReadResults :
         /\ ReadRecord(r)
         /\ r >= 0 => FillIpc(RecordCursor[1], RecordCursor[2])
    /\ UNCHANGED <<d_in, gvars>>

\* A default case that breaks out of the switch as the other cases do.
CaseDefault_Fallback ==
    /\ dpc = "switch"
    /\ Type \notin KnownTypes
    /\ block' = RewoundCursor[1]
    /\ offset' = RewoundCursor[2]
    /\ err' = 0
    /\ dpc' = "done"
    /\ UNCHANGED <<d_in, inode, calls, errlog, gvars>>

\* default: ERROR("Unknown inode type %d in squashfs_iget!\n", type);
\*          err = -EINVAL; goto failed_read1;
CaseDefault ==
    /\ dpc = "switch"
    /\ Type \notin KnownTypes
    /\ block' = RewoundCursor[1]
    /\ offset' = RewoundCursor[2]
    /\ errlog' = Append(errlog, [msg |-> "Unknown inode type", arg |-> Type])
    /\ err' = -EINVAL
    /\ dpc' = "done"
    /\ UNCHANGED <<d_in, inode, calls, gvars>>

DecodeNext ==
    \/ \E in \in DecodeInputs : Enter(in)
    \/ ReadBase
    \/ NewInode
    \/ CaseFile
    \/ CaseLreg
    \/ CaseDir
    \/ CaseLdir
    \/ CaseSymlink
    \/ CaseDev
    \/ CaseIpc
    \/ CaseDefault

----------------------------------------------------------------------------
(* squashfs_iget *)

\* Number of squashfs_iget calls (each made by a caller of its own).
NProcs == 3

Procs == 1..NProcs
\* The inode numbers (ino_number) the callers ask for.
InoNumbers == {1, 2}

\* What squashfs_read_inode may return to squashfs_iget.
ReadInodeResults == {0, -EINVAL}

NoRet == [kind |-> "none", val |-> 0]
\* return inode
RetInode(o) == [kind |-> "inode", val |-> o]
\* return ERR_PTR(e)
RetErr(e) == [kind |-> "err", val |-> e]

\* waited: the object was still locked (I_NEW) when iget_locked found it;
\* stale: FailedObjects(ino_number) as it was when the call began.
NoLocals ==
    [ ino_number |-> 0, inode |-> 0, err |-> 0, ret |-> NoRet,
      waited |-> FALSE, stale |-> {} ]

\* A struct inode fresh from iget_locked: hashed, I_NEW set, nothing decoded.
\* reads, reader and result record the squashfs_read_inode runs made on it.
NewObject(n, p) ==
    [ ino_number |-> n, I_NEW |-> TRUE, bad |-> FALSE, creator |-> p,
      reads |-> 0, reader |-> 0, result |-> 1 ]

\* The objects of inode number n whose decode has failed and whose failing
\* squashfs_iget call has finished with them (iget_failed has unlocked them).
FailedObjects(n) ==
    { o \in 1..Len(objs) :
        objs[o].ino_number = n /\ objs[o].result < 0 /\ ~objs[o].I_NEW }

\* The locals of caller p on entry to squashfs_iget(sb, ino, n).
Entered(n) == [NoLocals EXCEPT !.ino_number = n, !.stale = FailedObjects(n)]

\* The test of I_NEW left out: every caller goes on to squashfs_read_inode.
CheckNew_NoTest(p, loc, is_new) ==
    /\ gloc' = [gloc EXCEPT ![p] = loc]
    /\ gpc' = [gpc EXCEPT ![p] = "read_inode"]

\* if (!(inode->i_state & I_NEW)) return inode;
\* for caller p with locals loc, whose iget_locked returned an object with
\* i_state & I_NEW = is_new.
CheckNew(p, loc, is_new) ==
    IF ~is_new
    THEN /\ gloc' = [gloc EXCEPT ![p] = [loc EXCEPT !.ret = RetInode(loc.inode)]]
         /\ gpc' = [gpc EXCEPT ![p] = "returned"]
    ELSE /\ gloc' = [gloc EXCEPT ![p] = loc]
         /\ gpc' = [gpc EXCEPT ![p] = "read_inode"]

\* iget_locked(sb, n) finds the number hashed: it takes a reference and waits
\* for the object to be unlocked.
IgetLockedFound(p, n) ==
    /\ gpc[p] = "idle"
    /\ icache[n] # 0
    /\ LET o == icache[n]
       IN  gloc' = [gloc EXCEPT ![p] = [Entered(n) EXCEPT !.inode = o,
                                                         !.waited = objs[o].I_NEW]]
    /\ gpc' = [gpc EXCEPT ![p] = "wait_on_inode"]
    /\ UNCHANGED <<icache, objs, dvars>>

\* wait_on_inode inside iget_locked returns once I_LOCK|I_NEW are cleared;
\* iget_locked returns the object and squashfs_iget tests it.
WaitOnInode(p) ==
    /\ gpc[p] = "wait_on_inode"
    /\ ~objs[gloc[p].inode].I_NEW
    /\ CheckNew(p, gloc[p], objs[gloc[p].inode].I_NEW)
    /\ UNCHANGED <<icache, objs, dvars>>

\* iget_locked(sb, n) finds the number absent: it allocates an object, hashes
\* it with I_LOCK|I_NEW set and returns it; squashfs_iget tests it.
IgetLockedNew(p, n) ==
    /\ gpc[p] = "idle"
    /\ icache[n] = 0
    /\ objs' = Append(objs, NewObject(n, p))
    /\ icache' = [icache EXCEPT ![n] = Len(objs) + 1]
    /\ CheckNew(p, [Entered(n) EXCEPT !.inode = Len(objs) + 1], TRUE)
    /\ UNCHANGED dvars

\* iget_locked cannot allocate: if (!inode) return ERR_PTR(-ENOMEM).
IgetLockedNoMem(p, n) ==
    /\ gpc[p] = "idle"
    /\ icache[n] = 0
    /\ gloc' = [gloc EXCEPT ![p] = [Entered(n) EXCEPT !.ret = RetErr(-ENOMEM)]]
    /\ gpc' = [gpc EXCEPT ![p] = "returned"]
    /\ UNCHANGED <<icache, objs, dvars>>

\* err = squashfs_read_inode(inode, ino);
ReadInode(p) ==
    /\ gpc[p] = "read_inode"
    /\ \E e \in ReadInodeResults :
         /\ objs' = [objs EXCEPT ![gloc[p].inode].reads = @ + 1,
                                 ![gloc[p].inode].reader = p,
                                 ![gloc[p].inode].result = e]
         /\ gloc' = [gloc EXCEPT ![p].err = e]
         /\ gpc' = [gpc EXCEPT ![p] = IF e # 0 THEN "iget_failed"
                                      ELSE "unlock_new_inode"]
    /\ UNCHANGED <<icache, dvars>>

\* unlock_new_inode in the place of iget_failed: the object stays hashed.
IgetFailed_StaysHashed(p) ==
    /\ gpc[p] = "iget_failed"
    /\ gpc' = [gpc EXCEPT ![p] = "iget_failed_unlock"]
    /\ UNCHANGED <<icache, objs, gloc, dvars>>

\* iget_failed(inode), first half: make_bad_inode marks the object bad and
\* removes it from the inode hash.
IgetFailed(p) ==
    /\ gpc[p] = "iget_failed"
    /\ LET o == gloc[p].inode
       IN  /\ objs' = [objs EXCEPT ![o].bad = TRUE]
           /\ icache' = [icache EXCEPT ![objs[o].ino_number] =
                            IF @ = o THEN 0 ELSE @]
    /\ gpc' = [gpc EXCEPT ![p] = "iget_failed_unlock"]
    /\ UNCHANGED <<gloc, dvars>>

\* iget_failed(inode), second half: unlock_new_inode wakes the waiters and iput
\* drops the caller's reference; then return ERR_PTR(err).
IgetFailedUnlock(p) ==
    /\ gpc[p] = "iget_failed_unlock"
    /\ objs' = [objs EXCEPT ![gloc[p].inode].I_NEW = FALSE]
    /\ gloc' = [gloc EXCEPT ![p].ret = RetErr(gloc[p].err)]
    /\ gpc' = [gpc EXCEPT ![p] = "returned"]
    /\ UNCHANGED <<icache, dvars>>

\* unlock_new_inode(inode); return inode;
UnlockNewInode(p) ==
    /\ gpc[p] = "unlock_new_inode"
    /\ objs' = [objs EXCEPT ![gloc[p].inode].I_NEW = FALSE]
    /\ gloc' = [gloc EXCEPT ![p].ret = RetInode(gloc[p].inode)]
    /\ gpc' = [gpc EXCEPT ![p] = "returned"]
    /\ UNCHANGED <<icache, dvars>>

GateNext ==
    \E p \in Procs :
       \/ \E n \in InoNumbers : IgetLockedFound(p, n)
       \/ \E n \in InoNumbers : IgetLockedNew(p, n)
       \/ \E n \in InoNumbers : IgetLockedNoMem(p, n)
       \/ WaitOnInode(p)
       \/ ReadInode(p)
       \/ IgetFailed(p)
       \/ IgetFailedUnlock(p)
       \/ UnlockNewInode(p)

----------------------------------------------------------------------------
(* Specifications *)

\* No decode entered yet; an empty inode hash and every caller yet to call.
Init ==
    /\ d_in = NoInput
    /\ dpc = "idle"
    /\ block = 0
    /\ offset = 0
    /\ err = 0
    /\ inode = NoInodeFields
    /\ calls = <<>>
    /\ errlog = <<>>
    /\ icache = [n \in InoNumbers |-> 0]
    /\ objs = <<>>
    /\ gpc = [p \in Procs |-> "idle"]
    /\ gloc = [p \in Procs |-> NoLocals]

\* One decode of one record, from every input of DecodeInputs.
SpecDecode == Init /\ [][DecodeNext]_vars

\* NProcs concurrent squashfs_iget calls; a decode is its return value only.
SpecGate == Init /\ [][GateNext]_vars

----------------------------------------------------------------------------
(* Properties of squashfs_read_inode *)

Done == dpc = "done"
Rec == d_in.rec

CallsTo(f) == { i \in DOMAIN calls : calls[i].fn = f }
FragCalls == CallsTo("get_fragment_location")
ReadCalls == CallsTo("squashfs_read_metadata")
IdCalls == CallsTo("squashfs_get_id")
\* The type-specific record has been read successfully.
RecordRead == \E i \in ReadCalls : i > 1 /\ calls[i].ret = 0

\* C4: when the Fragment Resolver returns a negative result for a file record
\* with a non-sentinel fragment index, squashfs_read_inode returns exactly
\* that error code (and so does not return success).
C4_FragmentErrorPreserved ==
    Done => \A i \in FragCalls : calls[i].ret < 0 => err = calls[i].ret

\* C5: when the Fragment Resolver answers a non-sentinel fragment index with
\* the invalid-block sentinel or with a size of zero, the decode fails.
C5_InvalidFragmentRejected ==
    Done =>
      \A i \in FragCalls :
         (calls[i].ret >= 0 /\ (calls[i].blk = SQUASHFS_INVALID_BLK \/ calls[i].ret = 0))
            => err # 0

\* C6: for both file variants a fragment field equal to SQUASHFS_INVALID_FRAG
\* makes no Fragment Resolver call and stores fragment_size 0, fragment_offset 0
\* and fragment_block = SQUASHFS_INVALID_BLK; any other fragment index, 0
\* included, makes exactly one resolver call, for that index, once the record
\* has been read.
C6_SentinelNoFragment ==
    /\ Type \notin FileTypes => FragCalls = {}
    /\ (Done /\ Type \in FileTypes) =>
         IF Rec.fragment = SQUASHFS_INVALID_FRAG
         THEN /\ FragCalls = {}
              /\ err = 0 =>
                   /\ inode.fragment_size = ToU32(0)
                   /\ inode.fragment_offset = 0
                   /\ inode.fragment_block = SQUASHFS_INVALID_BLK
         ELSE /\ Cardinality(FragCalls) = IF RecordRead THEN 1 ELSE 0
              /\ \A i \in FragCalls : calls[i].fragment = Rec.fragment

C6_Witness ==
    /\ Done /\ err = 0 /\ Type = SQUASHFS_FILE_TYPE
    /\ Rec.fragment = SQUASHFS_INVALID_FRAG
    /\ FragCalls = {}
    /\ inode.fragment_size = ToU32(0)

\* Value of a word below 2^31.
WordVal(w) == w[1] + w[2] * Limb

\* ceil((size - sparse) / 512), at least 1 when size > 0, and 0 when size = 0.
ExpectedSectors(size, sparse) ==
    IF size = 0 THEN 0
    ELSE LET n == (size - sparse + 511) \div 512 IN IF n < 1 THEN 1 ELSE n

\* C7: i_blocks of a decoded file is ceil((size - sparse_bytes) / 512), at least
\* 1 when size > 0 and 0 when size = 0, for 0 <= sparse_bytes <= size (a
\* RegularFile has sparse_bytes = 0).
C7_SectorCount ==
    (Done /\ err = 0 /\ Type \in FileTypes) =>
       LET size == WordVal(Rec.file_size)
           sparse == IF Type = SQUASHFS_LREG_TYPE THEN WordVal(Rec.sparse) ELSE 0
       IN  sparse <= size => inode.i_blocks = ToU64(ExpectedSectors(size, sparse))

\* C8: a header whose type tag is none of the known inode types never decodes
\* successfully and never gets a variant; once the header is read and the ids
\* are resolved the result is -EINVAL with the raw tag in the diagnostic, and
\* no type-specific record is read.
C8_UnknownTypeFails ==
    Type \notin KnownTypes =>
       /\ inode.kind = "none"
       /\ \A i \in ReadCalls : i = 1 /\ calls[i].length = SizeOfBase
       /\ Done =>
            /\ err # 0
            /\ (Len(calls) = 3 /\ \A i \in 1..3 : calls[i].ret = 0) =>
                 /\ err = -EINVAL
                 /\ errlog = <<[msg |-> "Unknown inode type", arg |-> Type]>>

C8_Witness ==
    /\ Done /\ Type = 99 /\ err = -EINVAL
    /\ errlog = <<[msg |-> "Unknown inode type", arg |-> 99]>>
    /\ Len(calls) = 3

\* C9: the ids are resolved right after the base header read and before the
\* type dispatch, owner first; a failed owner lookup is the last call made, a
\* failed lookup of either is returned as the decode's error, and no
\* type-specific read or Fragment Resolver call follows it, whatever the type
\* tag is.
C9_IdFailureAborts ==
    /\ \A i \in IdCalls :
          /\ i \in {2, 3}
          /\ calls[1].fn = "squashfs_read_metadata" /\ calls[1].ret = 0
          /\ calls[i].index = IF i = 2 THEN Rec.uid ELSE Rec.guid
    /\ \A i \in IdCalls :
          calls[i].ret # 0 =>
             /\ Len(calls) = i
             /\ Done
             /\ err = calls[i].ret
    /\ \A i \in DOMAIN calls :
          (i > 1 /\ calls[i].fn # "squashfs_get_id") =>
             /\ i > 3
             /\ calls[2].ret = 0 /\ calls[3].ret = 0

C9_Witness ==
    /\ Done /\ Type = 99
    /\ Len(calls) = 3 /\ calls[3] = IdCall(Rec.guid, -5)
    /\ err = -5

\* C10: the type-specific record is read from the position the base header
\* was read from, and the position stored for the block list (file variants),
\* the directory index (ExtendedDirectory) and the target (Symlink) is the
\* cursor after exactly one record of that variant from there.
C10_RewindAndPostRecord ==
    LET at == StartCursor(d_in)
        post == CursorAfter(at[1], at[2], SizeOf(Type), d_in.compressed)
    IN  /\ \A i \in ReadCalls : calls[i].block = at[1] /\ calls[i].offset = at[2]
        /\ \A i \in ReadCalls : calls[i].length = IF i = 1 THEN SizeOfBase ELSE SizeOf(Type)
        /\ (Done /\ err = 0) =>
             /\ block = post[1] /\ offset = post[2]
             /\ Type \in FileTypes =>
                  inode.block_list_start = post[1] /\ inode.offset = post[2]
             /\ Type = SQUASHFS_LDIR_TYPE =>
                  inode.dir_idx_start = post[1] /\ inode.dir_idx_offset = post[2]
             /\ Type = SQUASHFS_SYMLINK_TYPE =>
                  inode.start = ToU64(post[1]) /\ inode.offset = post[2]

\* A file record whose base header straddles two metadata blocks.
C10_Witness ==
    /\ Done /\ err = 0 /\ Type = SQUASHFS_FILE_TYPE
    /\ SQUASHFS_INODE_OFFSET(d_in.ino) + SizeOfBase > SQUASHFS_METADATA_SIZE
    /\ inode.block_list_start =
          NextMetadataBlock(StartCursor(d_in)[1], d_in.compressed)
    /\ inode.offset =
          SQUASHFS_INODE_OFFSET(d_in.ino) + SizeOf(Type) - SQUASHFS_METADATA_SIZE

----------------------------------------------------------------------------
(* Properties of squashfs_iget *)

Objects == 1..Len(objs)
Returned(p) == gpc[p] = "returned"

\* C1: squashfs_read_inode runs at most once on an inode object, only by the
\* caller that found it new, and at most one run per inode number is in flight;
\* every caller that is handed an inode is handed one of its own number that
\* was decoded exactly once; and all callers that return a successfully
\* decoded inode for one number return the same object.
C1_SingleDecode ==
    /\ \A o \in Objects :
          /\ objs[o].reads <= 1
          /\ objs[o].reads = 1 => objs[o].reader = objs[o].creator
    /\ \A n \in InoNumbers :
          Cardinality({p \in Procs : gpc[p] = "read_inode" /\ gloc[p].ino_number = n}) <= 1
    /\ \A p \in Procs :
          gloc[p].ret.kind = "inode" =>
             /\ gloc[p].ret.val = gloc[p].inode
             /\ objs[gloc[p].inode].ino_number = gloc[p].ino_number
             /\ objs[gloc[p].inode].reads = 1
    /\ \A p, q \in Procs :
          ( /\ gloc[p].ret.kind = "inode" /\ gloc[q].ret.kind = "inode"
            /\ gloc[p].ino_number = gloc[q].ino_number
            /\ objs[gloc[p].ret.val].result = 0
            /\ objs[gloc[q].ret.val].result = 0 )
          => gloc[p].ret.val = gloc[q].ret.val

\* Two callers of one number, the second arriving while the first's decode was
\* in flight, both return the one object, decoded once.
C1_Witness ==
    \E p, q \in Procs :
       /\ p # q
       /\ gloc[p].ret.kind = "inode" /\ gloc[q].ret = gloc[p].ret
       /\ objs[gloc[p].inode].creator = p
       /\ gloc[q].waited
       /\ objs[gloc[p].inode].reads = 1 /\ objs[gloc[p].inode].result = 0

C3_WaitersGetFailure ==
    \A q \in Procs :
       ( /\ Returned(q) /\ gloc[q].waited
         /\ objs[gloc[q].inode].result < 0 )
       => gloc[q].ret = RetErr(objs[gloc[q].inode].result)

====
